---- MODULE Spec2Model ----
(***************************************************************************)
(* A model of jsonlint-cli (index.js): the error translator (lex,          *)
(* schemaError), the schema cache (readSchemaCache, writeSchemaCache), the *)
(* schema fetcher (getSchema, obtainSchema), the per-document pipeline     *)
(* (lint) and the process driver (main, execute, the final catch).         *)
(*                                                                         *)
(* The runs modelled are those in which the glob and the configuration     *)
(* loaders succeed; the glob may give, besides the documents, one path     *)
(* that cannot be read (a directory).  The JSON parser, the validation     *)
(* engine, the network and the file system are the environment.            *)
(***************************************************************************)
EXTENDS Integers, Sequences, FiniteSets, TLC

VARIABLES
    \* --- error translator (schemaError) ---
    error,        \* the engine's error object: error.validation, a JS object
    schema,       \* the schema handed to schemaError
    messages,     \* the result of schemaError(error, schema)
    block,        \* the lines lint joins into the error message (270-274)
    \* --- schema cache exercised on its own ---
    disk,         \* the cache directory: path -> bytes, Missing or Blocked
    writable,     \* whether the cache directory can be created and written
    lastWrite,    \* the last writeSchemaCache call and its outcome
    lastRead,     \* the last readSchemaCache call and its outcome
    \* --- the process ---
    pc,           \* where main is: start, settings, stdin, globbing, running,
                  \* resolved (main's promise resolved), exited
    exitCode,     \* the process exit code once pc = "exited", else -1
    options,      \* minimist's parse of the command line
    settings,     \* the merged settings main hands to execute
    started,      \* the document pipelines execute has started (0 is stdin)
    files,        \* per pipeline: the document at its path (on stdin for 0)
    content,      \* per pipeline: the document read, NoDoc before
    fileSettings, \* per pipeline: its merged settings, NoSettings before
    lintPromise,  \* per pipeline: the state of the promise lint returned
    phase,        \* per pipeline: NotStarted, Started, Done or Failed, or
                  \* Unread when its file could not be read
    steps,        \* per pipeline: the steps lint has taken, in order
    rejection,    \* the rejection on its way to main(args).catch
    timer,        \* the error the timer of main(args).catch will throw
                  \* (437-439), NoError while no timer is armed
    stdout,       \* what console.log has written, in order
    memo,         \* the cache of memoize(getSchema): uri -> schema
    ioLog,        \* the cache, network and module loads of getSchema, in order
    \* --- the pure functions exercised on their own ---
    fmtSource,    \* the text handed to formatJson
    fmtIndent,    \* the indent handed to formatJson
    formatted,    \* the result of formatJson(fmtSource, fmtIndent)
    sortArg,      \* the value tree handed to sort
    sorted,       \* the result of sort(sortArg)
    sortedAgain,  \* the result of sort applied to that result
    loaded        \* what the loaders of getSettings gave, for the working
                  \* directory and for a file, when getSettings is exercised

lexVars == <<error, schema, messages, block>>
cacheVars == <<disk, writable, lastWrite, lastRead>>
procVars == <<pc, exitCode, options, settings, started, files, content, fileSettings,
              lintPromise, phase, steps, rejection, timer, stdout, memo, ioLog>>
pureVars == <<fmtSource, fmtIndent, formatted, sortArg, sorted, sortedAgain, loaded>>
vars == <<error, schema, messages, block, disk, writable, lastWrite, lastRead,
          pc, exitCode, options, settings, started, files, content, fileSettings,
          lintPromise, phase, steps, rejection, timer, stdout, memo, ioLog,
          fmtSource, fmtIndent, formatted, sortArg, sorted, sortedAgain, loaded>>

(***************************************************************************)
(* JavaScript values and objects.  A value is tagged with its type; an     *)
(* object is the sequence of its <<key, value>> entries in insertion       *)
(* order, keys distinct.                                                   *)
(***************************************************************************)
Undefined == [t |-> "undefined"]
Num(n) == [t |-> "number", n |-> n]
Str(s) == [t |-> "string", s |-> s]
Bool(b) == [t |-> "boolean", b |-> b]
Obj(o) == [t |-> "object", o |-> o]

\* A template literal's ${v}: String(v).
JsString(v) ==
    CASE v.t = "undefined" -> "undefined"
      [] v.t = "number" -> ToString(v.n)
      [] v.t = "string" -> v.s
      [] v.t = "boolean" -> (IF v.b THEN "true" ELSE "false")
      [] v.t = "object" -> "[object Object]"

\* ToBoolean(v), as || and filter(Boolean) apply it.
Truthy(v) ==
    CASE v.t = "undefined" -> FALSE
      [] v.t = "number" -> v.n # 0
      [] v.t = "string" -> v.s # ""
      [] v.t = "boolean" -> v.b
      [] v.t = "object" -> TRUE
      [] v.t = "array" -> TRUE
      [] v.t = "text" -> v.cs # <<>>
      [] v.t = "null" -> FALSE

\* a || b
JsOr(a, b) == IF Truthy(a) THEN a ELSE b

\* JSON.stringify of a string without characters that need escaping.
JsonStringify(s) == "\"" \o s \o "\""

HasKey(o, k) == \E i \in 1..Len(o) : o[i][1] = k

\* o[k]: the property's value, undefined when o has no such property.
Get(o, k) ==
    IF HasKey(o, k) THEN o[CHOOSE i \in 1..Len(o) : o[i][1] = k][2] ELSE Undefined

\* The largest canonical array index that occurs as a key in the model.
MaxIndexKey == 1

\* The canonical array indices of the model: 0..MaxIndexKey as field names,
\* 9 and 10 as keys of the trees handed to sort.
IndexRange == (0..MaxIndexKey) \cup {9, 10}
IndexKeys == {ToString(n) : n \in IndexRange}
IsArrayIndex(k) == k \in IndexKeys
IndexOf(k) == CHOOSE n \in IndexRange : ToString(n) = k

InsertionKeys(o) == [i \in 1..Len(o) |-> o[i][1]]

RECURSIVE AscendingIndexKeys(_)
AscendingIndexKeys(S) ==
    IF S = {} THEN <<>>
    ELSE LET m == CHOOSE k \in S : \A j \in S : IndexOf(k) <= IndexOf(j)
         IN <<m>> \o AscendingIndexKeys(S \ {m})

\* Object.keys(o): integer-like keys in ascending numeric order, then the
\* other keys in insertion order.
ObjectKeys(o) ==
    AscendingIndexKeys({o[i][1] : i \in {j \in 1..Len(o) : IsArrayIndex(o[j][1])}})
    \o SelectSeq(InsertionKeys(o), LAMBDA k : ~IsArrayIndex(k))

(***************************************************************************)
(* The key sorter: sort (118-142).  Its objects are kept in enumeration    *)
(* order: the canonical array indices ascending, then the other keys as    *)
(* inserted.                                                               *)
(***************************************************************************)
JsNull == [t |-> "null"]
JsArray(a) == [t |-> "array", a |-> a]

\* The key names of the model in ascending order of their UTF-16 code
\* units, the order the default comparison of Array.prototype.sort uses.
KeyOrdinalOrder == <<"10", "9", "__proto__", "a", "b", "hasOwnProperty">>

OrdinalRank(k) == CHOOSE r \in 1..Len(KeyOrdinalOrder) : KeyOrdinalOrder[r] = k

\* a.sort() (135) on an array of distinct key names.
RECURSIVE ArraySort(_)
ArraySort(a) ==
    IF Len(a) = 0 THEN <<>>
    ELSE LET m == CHOOSE i \in 1..Len(a) :
                     \A j \in 1..Len(a) : OrdinalRank(a[i]) <= OrdinalRank(a[j])
         IN <<a[m]>> \o ArraySort(SubSeq(a, 1, m - 1) \o SubSeq(a, m + 1, Len(a)))

\* An object whose prototype is null: it inherits no method.
ObjNullProto(o) == [t |-> "object", o |-> o, proto |-> "null"]
HasNullProto(v) == "proto" \in DOMAIN v

\* o[k] = v on an object created by {} (138): "__proto__" is the accessor
\* inherited from Object.prototype, so assigning to it creates no property
\* (it sets the prototype when v is an object or null); a new canonical
\* array index takes its numeric place among the indices, any other new key
\* goes last.
Put(o, k, v) ==
    IF k = "__proto__" THEN o
    ELSE IF HasKey(o, k)
    THEN [i \in 1..Len(o) |-> IF o[i][1] = k THEN <<k, v>> ELSE o[i]]
    ELSE IF IsArrayIndex(k)
    THEN LET n == Cardinality({i \in 1..Len(o) : /\ IsArrayIndex(o[i][1])
                                                  /\ IndexOf(o[i][1]) < IndexOf(k)})
         IN SubSeq(o, 1, n) \o <<<<k, v>>>> \o SubSeq(o, n + 1, Len(o))
    ELSE Append(o, <<k, v>>)

RECURSIVE sort(_)
RECURSIVE sortInto(_, _, _, _)

\* The second loop of sort (137-139): sorted[a[key]] = sort(o[a[key]]);
\* nullProto tells whether an assignment has set the prototype to null.
sortInto(a, o, acc, nullProto) ==
    IF Len(a) = 0
    THEN [threw |-> FALSE, value |-> IF nullProto THEN ObjNullProto(acc) ELSE Obj(acc)]
    ELSE LET r == sort(Get(o, Head(a)))
         IN IF r.threw THEN r
            ELSE sortInto(Tail(a), o, Put(acc, Head(a), r.value),
                          IF Head(a) = "__proto__" /\ r.value.t \in {"null", "object", "array"}
                          THEN r.value.t = "null" ELSE nullProto)

\* sort(o).  The first loop (129-133) calls o.hasOwnProperty(key) for every
\* key: a TypeError when o has a property of its own under that name, which
\* in a JSON value tree is never a function, and when o inherits no method.
sort(o) ==
    IF o.t = "array"
    THEN LET rs == [i \in 1..Len(o.a) |-> sort(o.a[i])]
         IN IF \E i \in 1..Len(rs) : rs[i].threw
            THEN [threw |-> TRUE, value |-> JsNull]
            ELSE [threw |-> FALSE, value |-> JsArray([i \in 1..Len(rs) |-> rs[i].value])]
    ELSE IF o.t # "object" THEN [threw |-> FALSE, value |-> o]
    ELSE IF Len(o.o) > 0 /\ (HasKey(o.o, "hasOwnProperty") \/ HasNullProto(o))
    THEN [threw |-> TRUE, value |-> JsNull]
    ELSE sortInto(ArraySort(ObjectKeys(o.o)), o.o, <<>>, FALSE)

(***************************************************************************)
(* The error translator: lex (144-179) and schemaError (181-204).          *)
(***************************************************************************)
Quoted(s) == "\"" \o s \o "\""

\* The rule names that have a formatter of their own in lex.
LexNames == {"type", "minLength", "maxLength", "minProperties", "maxProperties",
             "patternProperties", "minItems", "maxItems", "required", "additional"}

\* lex.fallback(key, value, ruleName, ruleValue, prop)
fallback(key, value, ruleName, ruleValue, prop) ==
    LET ruleValueString == IF ruleValue.t = "string"
                           THEN JsonStringify(ruleValue.s)
                           ELSE JsString(ruleValue)
    IN Quoted(key) \o " does not meet rule \"" \o ruleName \o "=" \o ruleValueString
       \o "\" - " \o JsString(Get(prop, "description"))

\* lex[name](key, value, ruleName, ruleValue, prop) for a name of LexNames
lex(name, key, value, ruleName, ruleValue, prop) ==
    CASE name = "type" ->
           Quoted(key) \o " must be of type " \o Quoted(JsString(value))
      [] name = "minLength" ->
           Quoted(key) \o " must be at least " \o Quoted(JsString(ruleValue)) \o " characters"
      [] name = "maxLength" ->
           Quoted(key) \o " may be at most " \o Quoted(JsString(ruleValue)) \o " characters"
      [] name = "minProperties" ->
           Quoted(key) \o " must hold at least " \o Quoted(JsString(ruleValue)) \o " properties"
      [] name = "maxProperties" ->
           Quoted(key) \o " may hold at most " \o Quoted(JsString(ruleValue)) \o " properties"
      [] name = "patternProperties" ->
           Quoted(key) \o " must hold " \o Quoted(JsString(ruleValue)) \o " properties"
      [] name = "minItems" ->
           Quoted(key) \o " must have at leat " \o Quoted(JsString(ruleValue)) \o " items"
      [] name = "maxItems" ->
           Quoted(key) \o " may have at most " \o Quoted(JsString(ruleValue)) \o " items"
      [] name = "required" ->
           Quoted(key) \o " is " \o ruleName \o " but unset"
      [] name = "additional" ->
           Quoted(key) \o " is not allowed as " \o ruleName \o " key\t"

\* (lex[name] || lex.fallback)(key, value, name, ruleValue, prop)
formatter(name, key, value, ruleValue, prop) ==
    IF name \in LexNames
    THEN lex(name, key, value, name, ruleValue, prop)
    ELSE fallback(key, value, name, ruleValue, prop)

\* A translator that reports only the first violated rule of a field.
fieldMessagesFirstRule(key, validation, sch) ==
    LET names == ObjectKeys(validation)
        props == JsOr(Get(sch, "properties"), Obj(<<>>))
        prop == JsOr(Get(props.o, key), Obj(<<>>))
    IN [i \in 1..(IF Len(names) = 0 THEN 0 ELSE 1) |->
          formatter(names[i], key, Get(validation, names[i]),
                    JsOr(Get(prop.o, names[i]), Str("")), prop.o)]

\* The messages of one field: names.map(...).map(...), lines 185-201.
fieldMessages(key, validation, sch) ==
    LET names == ObjectKeys(validation)
        props == JsOr(Get(sch, "properties"), Obj(<<>>))
        prop == JsOr(Get(props.o, key), Obj(<<>>))
    IN [i \in 1..Len(names) |->
          formatter(names[i], key, Get(validation, names[i]),
                    JsOr(Get(prop.o, names[i]), Str("")), prop.o)]

RECURSIVE reduceMessages(_, _, _)
reduceMessages(keys, validationOf, sch) ==
    IF keys = <<>> THEN <<>>
    ELSE fieldMessages(Head(keys), Get(validationOf, Head(keys)).o, sch)
         \o reduceMessages(Tail(keys), validationOf, sch)

\* schemaError(error, schema); err is error.validation.
schemaError(err, sch) == reduceMessages(ObjectKeys(err), err, sch)

\* The lines lint joins with '\n' into the error message, lines 270-274.
lintBlock(absSourcePath, validate, err, sch) ==
    <<Quoted(absSourcePath) \o " fails against schema " \o Quoted(validate)>>
    \o [i \in 1..Len(SelectSeq(schemaError(err, sch), LAMBDA m : m # "")) |->
          "\t\t" \o SelectSeq(schemaError(err, sch), LAMBDA m : m # "")[i]]

(***************************************************************************)
(* Inputs of the translator: failures mappings as the validation engine    *)
(* builds them (field -> rule -> detail) and schemas.                      *)
(***************************************************************************)
MaxFields == 2
MaxRules == 2

\* The ten rules of lex in source order, then a rule lex does not name.
RuleOrder == <<"type", "minLength", "maxLength", "minProperties", "maxProperties",
               "patternProperties", "minItems", "maxItems", "required", "additional",
               "enum">>

FieldNames == {"name", "tags"} \cup {ToString(n) : n \in 0..MaxIndexKey}

\* What the engine stores under a violated rule.
Detail(name) == IF name = "type" THEN Str("string") ELSE Bool(TRUE)

\* len consecutive rules of RuleOrder from start, forwards or backwards.
RuleSlice(start, len, forwards) ==
    [j \in 1..len |->
       LET k == IF forwards THEN (start + j - 2) % Len(RuleOrder)
                ELSE (start + Len(RuleOrder) - j) % Len(RuleOrder)
       IN RuleOrder[k + 1]]

RulesObject(names) == [j \in 1..Len(names) |-> <<names[j], Detail(names[j])>>]

FieldOrders ==
    {fs \in UNION {[1..n -> FieldNames] : n \in 1..MaxFields} :
        \A i, j \in 1..Len(fs) : i # j => fs[i] # fs[j]}

Failures ==
    {[i \in 1..Len(fs) |->
        <<fs[i], Obj(RulesObject(RuleSlice(start + i - 1,
                                            ((len + i - 2) % MaxRules) + 1, fw)))>>] :
       fs \in FieldOrders, start \in 1..Len(RuleOrder), len \in 1..MaxRules,
       fw \in BOOLEAN}

Limits == {Num(0), Num(2), Str("^a")}

PropObject(limit, described) ==
    [j \in 1..Len(RuleOrder) |-> <<RuleOrder[j], limit>>]
    \o (IF described THEN <<<<"description", Str("a list of tags")>>>> ELSE <<>>)

SchemaFor(fields, limit, described) ==
    <<<<"properties",
        Obj([i \in 1..Len(fields) |-> <<fields[i], Obj(PropObject(limit, described))>>])>>>>

Schemas ==
    {<<>>, <<<<"properties", Obj(<<<<"name", Obj(<<>>)>>>>)>>>>}
    \cup {SchemaFor(<<"name", "tags", "0", "1">>, l, d) : l \in Limits, d \in BOOLEAN}

LexIdle ==
    /\ error = <<>>
    /\ schema = <<>>
    /\ messages = <<>>
    /\ block = <<>>

NotCalled == [t |-> "none"]

\* Neither formatJson nor sort is exercised on its own.
PureIdle ==
    /\ fmtSource = <<>>
    /\ fmtIndent = NotCalled
    /\ formatted = NotCalled
    /\ sortArg = NotCalled
    /\ sorted = NotCalled
    /\ sortedAgain = NotCalled
    /\ loaded = NotCalled

\* One call of schemaError on the failures and schema drawn, and of the
\* block assembly of lint around it.
Translate ==
    /\ block = <<>>
    /\ messages' = schemaError(error, schema)
    /\ block' = lintBlock("/w/a.json", "schema.json", error, schema)
    /\ UNCHANGED <<error, schema>>
    /\ UNCHANGED cacheVars
    /\ UNCHANGED procVars
    /\ UNCHANGED pureVars

(***************************************************************************)
(* The schema cache: getSchemaCacheId, readSchemaCache, writeSchemaCache   *)
(* (206-233).  The cache directory is a map from path to what lies there;  *)
(* a path nothing was stored at is Missing, one that cannot be opened (a   *)
(* directory, a file without permissions) is Blocked.                      *)
(***************************************************************************)
Null == [t |-> "null"]
Buffer(b) == [t |-> "buffer", data |-> b]

Missing == [kind |-> "missing"]
Blocked == [kind |-> "blocked"]
File(b) == [kind |-> "file", data |-> b]

\* crypto.createHash('md5').update(uri).digest('hex'), kept symbolic.
getSchemaCacheId(uri) == "md5(" \o uri \o ")"

\* path.resolve(__dirname, '.tmp', `${id}.json`)
CachePath(uri) == ".tmp/" \o getSchemaCacheId(uri) \o ".json"

At(d, path) == IF path \in DOMAIN d THEN d[path] ELSE Missing

\* fs.readFileSync(path): throws unless a readable file is there.
readFileSync(d, path) ==
    IF At(d, path).kind = "file"
    THEN [threw |-> FALSE, value |-> Buffer(At(d, path).data)]
    ELSE [threw |-> TRUE, value |-> Null]

\* mkdirp.sync(dirname) then fs.writeFileSync(path, data): throws when the
\* directory cannot be made or written, or the path cannot be opened.
writeFileSync(d, w, path, data) ==
    IF w /\ At(d, path).kind # "blocked"
    THEN [threw |-> FALSE,
          disk |-> [q \in DOMAIN d \cup {path} |-> IF q = path THEN File(data) ELSE d[q]]]
    ELSE [threw |-> TRUE, disk |-> d]

readSchemaCacheNoCatch(d, uri) == readFileSync(d, CachePath(uri))

\* readSchemaCache(uri): the buffer, or null when the read throws.
readSchemaCache(d, uri) ==
    LET r == readFileSync(d, CachePath(uri))
    IN IF r.threw THEN [threw |-> FALSE, value |-> Null] ELSE r

\* writeSchemaCache(uri, schema): a failure is swallowed and null returned.
writeSchemaCache(d, w, uri, data) ==
    LET r == writeFileSync(d, w, CachePath(uri), data)
    IN [threw |-> FALSE,
        value |-> IF r.threw THEN Null ELSE Undefined,
        disk |-> r.disk]

(***************************************************************************)
(* The schema fetcher: getSchema (235-247) and obtainSchema (249).         *)
(***************************************************************************)
RemoteRef == "http://schemas.test/s.json"
OtherRemoteRef == "https://schemas.test/t.json"
LocalRef == "./schema.json"
NoHostRef == "file:///schema.json"

\* url.parse(uri), the two fields getSchema reads.
UrlParse(uri) ==
    CASE uri = RemoteRef -> [protocol |-> Str("http:"), host |-> Str("schemas.test")]
      [] uri = OtherRemoteRef -> [protocol |-> Str("https:"), host |-> Str("schemas.test")]
      [] uri = NoHostRef -> [protocol |-> Str("file:"), host |-> Str("")]
      [] OTHER -> [protocol |-> Null, host |-> Null]

SchemaText == "{\"properties\":{\"a\":{\"type\":\"string\"}}}"
NotJsonText == "<html>"

\* Bytes and texts.  A text is named by its UTF-8 encoding, so encoding a
\* text gives the bytes of the same name; bytes that are not valid UTF-8 are
\* decoded with U+FFFD in place of each invalid byte.  InvalidUtf8Bytes is a
\* schema with the byte FF inside a string, ReplacedText what it decodes to.
InvalidUtf8Bytes == "{\"title\":\"<FF>\"}"
ReplacedText == "{\"title\":\"<U+FFFD>\"}"

\* buffer.toString('utf-8') (240), and the String(response) JSON.parse
\* applies to a buffer (241).
BufferToString(bytes) == IF bytes = InvalidUtf8Bytes THEN ReplacedText ELSE bytes

\* The bytes fs.writeFileSync writes for a string (229).
Utf8Encode(text) == text

\* request(...).getBody() returns a buffer, buffer.toString a string.
ResponseText(response) ==
    IF response.t = "buffer" THEN BufferToString(response.data) ELSE response.s
ResponseBytes(response) ==
    IF response.t = "buffer" THEN response.data ELSE Utf8Encode(response.s)

TitleSchema == <<<<"title", Str("<U+FFFD>")>>>>

ParsedSchema ==
    <<<<"properties", Obj(<<<<"a", Obj(<<<<"type", Str("string")>>>>)>>>>)>>>>

\* The message of the SyntaxError JSON.parse throws for a text: the empty
\* text, or a text that goes wrong at its first character, which is < in
\* the texts of the model.
JsonParseMessage(text) ==
    IF text = "" THEN "Unexpected end of JSON input"
    ELSE "Unexpected token '<', \"" \o text \o "\" is not valid JSON"

\* JSON.parse(text) on the texts of the model.
JsonParse(text) ==
    CASE text = SchemaText -> [threw |-> FALSE, value |-> ParsedSchema, message |-> ""]
      [] text = "{}" -> [threw |-> FALSE, value |-> <<>>, message |-> ""]
      [] text = ReplacedText -> [threw |-> FALSE, value |-> TitleSchema, message |-> ""]
      [] OTHER -> [threw |-> TRUE, value |-> <<>>, message |-> JsonParseMessage(text)]

\* The message of the error request('GET', uri).getBody() throws when the
\* host cannot be reached.
NetFailMessage == "getaddrinfo ENOTFOUND schemas.test"

\* The file the program runs from, as require names it in its errors.
ScriptPath == "/app/index.js"

\* The message of the error require(uri) throws for a module it cannot find:
\* three lines.
RequireMessage(uri) ==
    "Cannot find module '" \o uri \o "'\nRequire stack:\n- " \o ScriptPath

\* What request('GET', uri).getBody() can do: throw, or return a body.
NetFail == [ok |-> FALSE, body |-> ""]
NetBody(b) == [ok |-> TRUE, body |-> b]
NetOutcomes ==
    {NetFail, NetBody(SchemaText), NetBody(NotJsonText), NetBody(InvalidUtf8Bytes)}

EvRead(uri, v) == [op |-> "cacheRead", uri |-> uri, hit |-> (v.t = "buffer")]
EvGet(uri, r) == [op |-> "GET", uri |-> uri, ok |-> r.ok, body |-> r.body]
EvWrite(uri, data) == [op |-> "cacheWrite", uri |-> uri, data |-> data]
EvRequire(uri, found) == [op |-> "require", uri |-> uri, ok |-> found]
EvReturn(uri) == [op |-> "return", uri |-> uri]
EvThrow(uri) == [op |-> "throw", uri |-> uri]

\* The remote branch once the response text is known: lines 241-243.
parseAndStore(d, w, uri, response, events) ==
    LET data == JsonParse(ResponseText(response))
    IN IF data.threw
       THEN [threw |-> TRUE, data |-> <<>>, disk |-> d, message |-> data.message,
             events |-> events \o <<EvThrow(uri)>>]
       ELSE [threw |-> FALSE, data |-> data.value, message |-> "",
             disk |-> writeSchemaCache(d, w, uri, ResponseBytes(response)).disk,
             events |-> events \o <<EvWrite(uri, ResponseBytes(response)), EvReturn(uri)>>]

getSchemaAlwaysFetch(d, w, uri, net, found) ==
    IF ~net.ok
    THEN [threw |-> TRUE, data |-> <<>>, disk |-> d, message |-> NetFailMessage,
          events |-> <<EvGet(uri, net), EvThrow(uri)>>]
    ELSE parseAndStore(d, w, uri, Buffer(net.body), <<EvGet(uri, net)>>)

\* getSchema(uri); net is what a GET would do, found whether require finds
\* the module.
getSchema(d, w, uri, net, found) ==
    LET parsed == UrlParse(uri)
    IN IF Truthy(parsed.protocol) /\ Truthy(parsed.host)
       THEN LET buffer == readSchemaCache(d, uri).value
            IN IF buffer.t = "buffer"
               THEN parseAndStore(d, w, uri, Str(BufferToString(buffer.data)),
                                  <<EvRead(uri, buffer)>>)
               ELSE IF ~net.ok
                    THEN [threw |-> TRUE, data |-> <<>>, disk |-> d,
                          message |-> NetFailMessage,
                          events |-> <<EvRead(uri, buffer), EvGet(uri, net), EvThrow(uri)>>]
                    ELSE parseAndStore(d, w, uri, Buffer(net.body),
                                       <<EvRead(uri, buffer), EvGet(uri, net)>>)
       ELSE IF found
            THEN [threw |-> FALSE, data |-> ParsedSchema, disk |-> d, message |-> "",
                  events |-> <<EvRequire(uri, TRUE), EvReturn(uri)>>]
            ELSE [threw |-> TRUE, data |-> <<>>, disk |-> d,
                  message |-> RequireMessage(uri),
                  events |-> <<EvRequire(uri, FALSE), EvThrow(uri)>>]

\* obtainSchema = memoize(getSchema): a result is stored under the uri when
\* getSchema returns, and nothing is stored when it throws; message is the
\* message of the error thrown.
obtainSchema(cache, d, w, uri, net, found) ==
    IF uri \in DOMAIN cache
    THEN [threw |-> FALSE, data |-> cache[uri], disk |-> d, message |-> "",
          events |-> <<>>, memo |-> cache]
    ELSE LET r == getSchema(d, w, uri, net, found)
         IN r @@ [memo |-> IF r.threw THEN cache ELSE (uri :> r.data) @@ cache]

(***************************************************************************)
(* The pretty-printer: repeat (49-51) and formatJson (52-116).  Texts are  *)
(* sequences of characters.                                                *)
(***************************************************************************)
RECURSIVE Copies(_, _)
Copies(s, n) == IF n <= 0 THEN <<>> ELSE s \o Copies(s, n - 1)

\* repeat(s, count) = new Array(count + 1).join(s): a RangeError when
\* count + 1 is negative.
repeat(s, count) ==
    IF count + 1 < 0 THEN [threw |-> TRUE, value |-> <<>>]
    ELSE [threw |-> FALSE, value |-> Copies(s, count)]

\* The loop of formatJson from 1-based position i on.
RECURSIVE formatFrom(_, _, _, _, _, _)
formatFrom(source, tab, i, newJson, indentLevel, inString) ==
    IF i > Len(source) THEN [threw |-> FALSE, value |-> newJson]
    ELSE
      LET currentChar == source[i]
          copy == formatFrom(source, tab, i + 1, newJson \o <<currentChar>>,
                             indentLevel, inString)
      IN
      CASE currentChar \in {"{", "["} ->
             IF inString THEN copy
             ELSE LET r == repeat(tab, indentLevel + 1)
                  IN IF r.threw THEN [threw |-> TRUE, value |-> newJson]
                     ELSE formatFrom(source, tab, i + 1,
                                     newJson \o <<currentChar, "\n">> \o r.value,
                                     indentLevel + 1, inString)
        [] currentChar \in {"}", "]"} ->
             IF inString THEN copy
             ELSE LET r == repeat(tab, indentLevel - 1)
                  IN IF r.threw THEN [threw |-> TRUE, value |-> newJson]
                     ELSE formatFrom(source, tab, i + 1,
                                     newJson \o <<"\n">> \o r.value \o <<currentChar>>,
                                     indentLevel - 1, inString)
        [] currentChar = "," ->
             IF inString THEN copy
             ELSE LET r == repeat(tab, indentLevel)
                  IN IF r.threw THEN [threw |-> TRUE, value |-> newJson]
                     ELSE formatFrom(source, tab, i + 1,
                                     newJson \o <<",", "\n">> \o r.value,
                                     indentLevel, inString)
        [] currentChar = ":" ->
             IF inString THEN copy
             ELSE formatFrom(source, tab, i + 1, newJson \o <<":", " ">>,
                             indentLevel, inString)
        [] currentChar \in {" ", "\n", "\t"} ->
             IF inString THEN copy
             ELSE formatFrom(source, tab, i + 1, newJson, indentLevel, inString)
        [] currentChar = "\"" ->
             formatFrom(source, tab, i + 1, newJson \o <<currentChar>>, indentLevel,
                        IF i > 1 /\ source[i - 1] # "\\" THEN ~inString ELSE inString)
        [] OTHER -> copy

\* A formatter that indents with dashes whatever indent it is given.
formatJsonDashes(source, indent) == formatFrom(source, <<"-">>, 1, <<>>, 0, FALSE)

\* tab (55): two tabs when no indent is given.
tabOf(indent) == IF indent.t = "undefined" THEN <<"\t", "\t">> ELSE indent.cs

\* formatJson(source, indent)
formatJson(source, indent) == formatFrom(source, tabOf(indent), 1, <<>>, 0, FALSE)

\* The value of inString when the loop reaches 1-based position i: false
\* at the start (58), toggled by the quotes before i (104-107).
RECURSIVE inStringAt(_, _)
inStringAt(source, i) ==
    IF i <= 1 THEN FALSE
    ELSE IF source[i - 1] = "\"" /\ i - 1 > 1 /\ source[i - 2] # "\\"
    THEN ~inStringAt(source, i - 1)
    ELSE inStringAt(source, i - 1)

(***************************************************************************)
(* Settings: defaults (22-29) and getSettings (303-333).  A settings       *)
(* object is a function from its keys to JavaScript values.                *)
(***************************************************************************)
Arr(a) == [t |-> "array", a |-> a]
Text(cs) == [t |-> "text", cs |-> cs]
EmptyObject == [k \in {} |-> Null]

defaults ==
    [ignore |-> Arr(<<"node_modules/**/*">>),
     validate |-> Null,
     indent |-> Text(<<" ", " ">>),
     env |-> Str("json-schema-draft-04"),
     quiet |-> Bool(FALSE),
     pretty |-> Bool(FALSE)]

\* Object.assign({}, a, b): b's properties over a's.
Assign(a, b) == b @@ a

\* The then-callback of getSettings (326-332): results[1] is what the
\* .jsonlintrc loader gave, results[2] what the .jsonlintignore loader gave.
getSettings(opts, results) ==
    Assign(Assign(Assign(defaults, results[1]), opts),
           [ignore |-> Arr(ObjectKeys(results[2]))])

(***************************************************************************)
(* Documents.  The JSON parser and the validation engine are external:     *)
(* a document carries whether parser.parse accepts its text and what the   *)
(* engine reports for it against the schema of the model.                  *)
(***************************************************************************)
NoDoc == [name |-> "none"]
\* What lies at a path that cannot be read.
Unreadable == [name |-> "unreadable"]
NoSettings == [none |-> TRUE]
NoError == [type |-> "none"]

DocOk ==
    [name |-> "ok", parses |-> TRUE, errors |-> <<>>,
     text |-> <<"{", "\"", "a", "\"", ":", "\"", "x", "\"", "}">>]
DocInvalid ==
    [name |-> "invalid", parses |-> TRUE,
     errors |-> <<<<"a", Obj(<<<<"type", Str("string")>>>>)>>>>,
     text |-> <<"{", "\"", "a", "\"", ":", "1", "}">>]
DocBad ==
    [name |-> "bad", parses |-> FALSE, errors |-> <<>>,
     text |-> <<"{", "\"", "a", "\"", ":">>]
DocString ==
    [name |-> "string", parses |-> TRUE, errors |-> <<>>,
     text |-> <<"\"", "}", "}", "\"">>]

Documents == {DocOk, DocInvalid, DocBad, DocString}

ParseMessage == "Parse error on line 1"
RangeMessage == "Invalid array length"

\* environment.validate('default', parsed): null (no entries) or the
\* failures mapping.
engineValidate(sch, doc) == IF sch = ParsedSchema THEN doc.errors ELSE <<>>

RECURSIVE JoinLines(_)
JoinLines(lines) ==
    IF Len(lines) = 0 THEN ""
    ELSE IF Len(lines) = 1 THEN lines[1]
    ELSE lines[1] \o "\n" \o JoinLines(Tail(lines))

\* path.resolve(sourcePath), or null for stdin; as the template prints it.
AbsPath(f) == IF f = 0 THEN "null" ELSE "/w/f" \o ToString(f) \o ".json"

PrettyOut(f, cs) == [kind |-> "pretty", file |-> f, text |-> Text(cs)]
DiagOut(f, msg) == [kind |-> "diag", file |-> f, text |-> msg]

\* A catch block that keeps the message whatever quiet says.
lintErrorLoud(f, st, message) ==
    [type |-> "jsonlint", message |-> Str(AbsPath(f) \o " " \o message), file |-> f]

\* The catch block of lint (280-284): the error lint rejects with.
lintError(f, st, message) ==
    [type |-> "jsonlint",
     message |-> IF Truthy(st.quiet) THEN Null ELSE Str(AbsPath(f) \o " " \o message),
     file |-> f]

Outcome(rej, err, out, cache, d, events, stepsTaken) ==
    [rejected |-> rej, error |-> err, out |-> out, memo |-> cache, disk |-> d,
     events |-> events, steps |-> stepsTaken]

\* A validation part that goes on without a schema when none can be had.
lintValidateSwallow(f, doc, st, cache, d, w, net, found, out, stepsTaken) ==
    IF ~Truthy(st.validate)
    THEN Outcome(FALSE, NoError, out, cache, d, <<>>, stepsTaken)
    ELSE LET r == obtainSchema(cache, d, w, st.validate.s, net, found)
             errors == engineValidate(r.data, doc)
         IN IF r.threw
            THEN Outcome(FALSE, NoError, out, r.memo, r.disk, r.events,
                         stepsTaken \o <<"resolve">>)
            ELSE IF errors # <<>>
            THEN Outcome(TRUE,
                         lintError(f, st, JoinLines(lintBlock(AbsPath(f), st.validate.s,
                                                              errors, r.data))),
                         out, r.memo, r.disk, r.events,
                         stepsTaken \o <<"resolve", "validate">>)
            ELSE Outcome(FALSE, NoError, out, r.memo, r.disk, r.events,
                         stepsTaken \o <<"resolve", "validate">>)

\* The validation part of lint (264-279), reached with the document parsed
\* and out already written.
lintValidate(f, doc, st, cache, d, w, net, found, out, stepsTaken) ==
    IF ~Truthy(st.validate)
    THEN Outcome(FALSE, NoError, out, cache, d, <<>>, stepsTaken)
    ELSE LET r == obtainSchema(cache, d, w, st.validate.s, net, found)
             errors == engineValidate(r.data, doc)
         IN IF r.threw
            THEN Outcome(TRUE, lintError(f, st, r.message), out, r.memo, r.disk,
                         r.events, stepsTaken \o <<"resolve">>)
            ELSE IF errors # <<>>
            THEN Outcome(TRUE,
                         lintError(f, st, JoinLines(lintBlock(AbsPath(f), st.validate.s,
                                                              errors, r.data))),
                         out, r.memo, r.disk, r.events,
                         stepsTaken \o <<"resolve", "validate">>)
            ELSE Outcome(FALSE, NoError, out, r.memo, r.disk, r.events,
                         stepsTaken \o <<"resolve", "validate">>)

\* An executor that pretty-prints before it parses.
lintPrettyFirst(f, doc, st, cache, d, w, net, found) ==
    IF Truthy(st.pretty) /\ ~Truthy(st.quiet)
    THEN LET p == formatJson(doc.text, st.indent)
         IN IF p.threw
            THEN Outcome(TRUE, lintError(f, st, RangeMessage), <<>>, cache, d, <<>>,
                         <<"pretty">>)
            ELSE IF ~doc.parses
            THEN Outcome(TRUE, lintError(f, st, ParseMessage), <<PrettyOut(f, p.value)>>,
                         cache, d, <<>>, <<"pretty", "parse">>)
            ELSE lintValidate(f, doc, st, cache, d, w, net, found,
                              <<PrettyOut(f, p.value)>>, <<"pretty", "parse">>)
    ELSE IF ~doc.parses
    THEN Outcome(TRUE, lintError(f, st, ParseMessage), <<>>, cache, d, <<>>, <<"parse">>)
    ELSE lintValidate(f, doc, st, cache, d, w, net, found, <<>>, <<"parse">>)

\* The executor of the promise lint returns (252-286).  resolve is never
\* called: without a throw the promise stays pending.  No run of the model
\* sets settings.source, so the parsed value is not handed to sort (256-258).
lint(f, doc, st, cache, d, w, net, found) ==
    IF ~doc.parses
    THEN Outcome(TRUE, lintError(f, st, ParseMessage), <<>>, cache, d, <<>>, <<"parse">>)
    ELSE IF Truthy(st.pretty) /\ ~Truthy(st.quiet)
    THEN LET p == formatJson(doc.text, st.indent)
         IN IF p.threw
            THEN Outcome(TRUE, lintError(f, st, RangeMessage), <<>>, cache, d, <<>>,
                         <<"parse", "pretty">>)
            ELSE lintValidate(f, doc, st, cache, d, w, net, found,
                              <<PrettyOut(f, p.value)>>, <<"parse", "pretty">>)
    ELSE lintValidate(f, doc, st, cache, d, w, net, found, <<>>, <<"parse">>)

(***************************************************************************)
(* The process: main (410-423), execute (335-381), the pipelines'          *)
(* callbacks and main(args).catch (429-441).                               *)
(***************************************************************************)
MaxFiles == 2

\* The pipeline of the path that cannot be read, when the glob gives one;
\* the pipelines 1..MaxFiles are those of the documents, 0 is stdin.
DirPipeline == MaxFiles + 1

Pipelines == 0..DirPipeline

\* o[k] of a settings object
Prop(o, k) == IF k \in DOMAIN o THEN o[k] ELSE Undefined

Flag(k) == {EmptyObject, k :> Bool(TRUE)}

\* What minimist can hand to main.
OptionSets ==
    {q @@ p @@ v @@ ("_" :> Arr(fs)) :
        q \in Flag("quiet"), p \in Flag("pretty"),
        v \in {EmptyObject, "validate" :> Str(RemoteRef), "validate" :> Str(LocalRef),
               "validate" :> Str(NoHostRef)},
        fs \in {<<>>, <<"*.json">>}}
    \cup {h @@ ("_" :> Arr(fs)) : h \in {"help" :> Bool(TRUE), "version" :> Bool(TRUE)},
                                   fs \in {<<>>, <<"*.json">>}}

\* What the .jsonlintrc and .jsonlintignore loaders can give.
RcConfigs == {EmptyObject, "quiet" :> Bool(TRUE)}
IgnoreConfigs == {<<>>}

DiskInits ==
    [{CachePath(RemoteRef)} ->
        {Missing, Blocked, File(SchemaText), File(NotJsonText), File(InvalidUtf8Bytes)}]

NoCall == [t |-> "none"]
EmptyMemo == [u \in {} |-> <<>>]

\* The cache directory is only touched for a remote reference: its state is
\* drawn only for the runs that can read it.
UsesRemote(o) == Prop(o, "validate") = Str(RemoteRef)

Init ==
    /\ LexIdle
    /\ PureIdle
    /\ lastWrite = NoCall
    /\ lastRead = NoCall
    /\ options \in OptionSets
    /\ disk \in DiskInits
    /\ writable \in BOOLEAN
    /\ UsesRemote(options) \/ (writable /\ disk = [q \in {CachePath(RemoteRef)} |-> Missing])
    /\ pc = "start"
    /\ exitCode = -1
    /\ settings = NoSettings
    /\ started = {}
    /\ files = [f \in Pipelines |-> NoDoc]
    /\ content = [f \in Pipelines |-> NoDoc]
    /\ fileSettings = [f \in Pipelines |-> NoSettings]
    /\ lintPromise = [f \in Pipelines |-> "none"]
    /\ phase = [f \in Pipelines |-> "NotStarted"]
    /\ steps = [f \in Pipelines |-> <<>>]
    /\ rejection = NoError
    /\ timer = NoError
    /\ stdout = <<>>
    /\ memo = EmptyMemo
    /\ ioLog = <<>>

idleVars == <<error, schema, messages, block, lastWrite, lastRead,
              fmtSource, fmtIndent, formatted, sortArg, sorted, sortedAgain, loaded>>

\* main(options): help and version print and resolve; otherwise the two
\* loaders of getSettings are started.
main ==
    /\ pc = "start"
    /\ IF Truthy(Prop(options, "help"))
       THEN stdout' = Append(stdout, [kind |-> "help", file |-> 0, text |-> Null])
            /\ pc' = "resolved"
       ELSE IF Truthy(Prop(options, "version"))
       THEN stdout' = Append(stdout, [kind |-> "version", file |-> 0, text |-> Null])
            /\ pc' = "resolved"
       ELSE stdout' = stdout /\ pc' = "settings"
    /\ UNCHANGED <<exitCode, options, settings, started, files, content, fileSettings,
                   lintPromise, phase, steps, rejection, timer, memo, ioLog, disk, writable>>
    /\ UNCHANGED idleVars

\* getSettings(options, cwd) resolves and execute runs with the result up
\* to its first asynchronous call: readStdin or globby.
execute ==
    /\ pc = "settings"
    /\ \E rc \in RcConfigs, ign \in IgnoreConfigs :
         /\ settings' = getSettings(options, <<rc, ign>>)
         /\ pc' = IF Len(JsOr(Prop(settings', "_"), Arr(<<>>)).a) = 0
                  THEN "stdin" ELSE "globbing"
    /\ UNCHANGED <<exitCode, options, started, files, content, fileSettings,
                   lintPromise, phase, steps, rejection, timer, stdout, memo, ioLog, disk, writable>>
    /\ UNCHANGED idleVars

\* The callback of globby (349-380): one pipeline per path, each a file
\* read and a getSettings; with no path the promise resolves.
globbed ==
    /\ pc = "globbing"
    /\ \E n \in 0..MaxFiles, dir \in BOOLEAN :
         IF n = 0 /\ ~dir
         THEN pc' = "resolved" /\ UNCHANGED <<started, files, phase>>
         ELSE /\ pc' = "running"
              /\ started' = (1..n) \cup (IF dir THEN {DirPipeline} ELSE {})
              /\ \E docs \in [1..n -> Documents] :
                   files' = [f \in Pipelines |->
                               IF f \in 1..n THEN docs[f]
                               ELSE IF dir /\ f = DirPipeline THEN Unreadable
                               ELSE files[f]]
              /\ phase' = [f \in Pipelines |-> IF f \in started' THEN "Started" ELSE phase[f]]
    /\ UNCHANGED <<exitCode, options, settings, content, fileSettings, lintPromise,
                   steps, rejection, timer, stdout, memo, ioLog, disk, writable>>
    /\ UNCHANGED idleVars

\* The message of the error read(file) rejects with for a path that is a
\* directory.
ReadMessage == "EISDIR: illegal operation on a directory, read"

\* Both promises of a pipeline are fulfilled and its callback has not run.
LintReady(f) ==
    /\ f \in started
    /\ content[f] \notin {NoDoc, Unreadable}
    /\ fileSettings[f] # NoSettings
    /\ lintPromise[f] = "none"

\* The promise main returned is rejected once: a later rejection of a
\* pipeline finds the promises of execute (351, 354) settled and is dropped.
MainRejected == timer # NoError

\* Promise reactions run before the next I/O callback.
MicrotaskPending == rejection # NoError \/ \E f \in Pipelines : LintReady(f)

\* read(file) resolves (355-361).
readDone(f) ==
    /\ pc = "running"
    /\ f \in started
    /\ f # 0
    /\ content[f] = NoDoc
    /\ files[f] # Unreadable
    /\ ~MicrotaskPending
    /\ content' = [content EXCEPT ![f] = files[f]]
    /\ UNCHANGED <<pc, exitCode, options, settings, started, files, fileSettings, lintPromise,
                   phase, steps, rejection, timer, stdout, memo, ioLog, disk, writable>>
    /\ UNCHANGED idleVars

\* read(file) rejects (355): the promises of the pipeline and of execute
\* reject with the error of the read, which lint never sees, and the
\* callback that calls lint (367) does not run.
readFailed(f) ==
    /\ pc = "running"
    /\ f \in started
    /\ f # 0
    /\ content[f] = NoDoc
    /\ files[f] = Unreadable
    /\ ~MicrotaskPending
    /\ content' = [content EXCEPT ![f] = Unreadable]
    /\ phase' = [phase EXCEPT ![f] = "Unread"]
    /\ rejection' = IF MainRejected THEN NoError
                    ELSE [type |-> "other", message |-> Str(ReadMessage), file |-> f]
    /\ UNCHANGED <<pc, exitCode, options, settings, started, files, fileSettings, lintPromise,
                   steps, timer, stdout, memo, ioLog, disk, writable>>
    /\ UNCHANGED idleVars

\* getSettings(settings, file) resolves (362, 326-332).
fileSettingsDone(f) ==
    /\ pc = "running"
    /\ f \in started
    /\ f # 0
    /\ fileSettings[f] = NoSettings
    /\ ~MicrotaskPending
    /\ \E rc \in RcConfigs, ign \in IgnoreConfigs :
         fileSettings' = [fileSettings EXCEPT ![f] = getSettings(settings, <<rc, ign>>)]
    /\ UNCHANGED <<pc, exitCode, options, settings, started, files, content, lintPromise,
                   phase, steps, rejection, timer, stdout, memo, ioLog, disk, writable>>
    /\ UNCHANGED idleVars

\* What one call of lint leaves behind.
Linted(f, r) ==
    /\ lintPromise' = [lintPromise EXCEPT ![f] = IF r.rejected THEN "rejected" ELSE "pending"]
    /\ phase' = [phase EXCEPT ![f] = IF r.rejected THEN "Failed" ELSE "Done"]
    /\ steps' = [steps EXCEPT ![f] = r.steps]
    /\ rejection' = IF r.rejected /\ ~MainRejected THEN r.error ELSE NoError
    /\ stdout' = stdout \o r.out
    /\ memo' = r.memo
    /\ disk' = r.disk
    /\ ioLog' = ioLog \o r.events

\* The callback that calls lint for a file (367-376).
lintFile(f) ==
    /\ pc = "running"
    /\ LintReady(f)
    /\ rejection = NoError
    /\ \E net \in NetOutcomes, found \in BOOLEAN :
         Linted(f, lint(f, content[f], fileSettings[f], memo, disk, writable, net, found))
    /\ UNCHANGED <<pc, exitCode, options, settings, started, files, content, fileSettings,
                   timer, writable>>
    /\ UNCHANGED idleVars

\* readStdin resolves and its callback calls lint (342-345).
stdinEnd ==
    /\ pc = "stdin"
    /\ \E doc \in Documents, net \in NetOutcomes, found \in BOOLEAN :
         /\ files' = [files EXCEPT ![0] = doc]
         /\ content' = [content EXCEPT ![0] = doc]
         /\ Linted(0, lint(0, doc, settings, memo, disk, writable, net, found))
    /\ started' = {0}
    /\ fileSettings' = [fileSettings EXCEPT ![0] = settings]
    /\ pc' = "running"
    /\ UNCHANGED <<exitCode, options, settings, timer, writable>>
    /\ UNCHANGED idleVars

\* main(args).catch (429-441): a jsonlint error is printed unless its
\* message is null and process.exit(1) ends the process; for any other error
\* a timer is armed that will rethrow it, and the handler returns to the
\* event loop.  lint marks every error it rejects with as jsonlint; the
\* error of a failed read is not.
catch ==
    /\ pc # "exited"
    /\ rejection # NoError
    /\ IF rejection.type = "jsonlint"
       THEN /\ stdout' = IF rejection.message # Null
                         THEN Append(stdout, DiagOut(rejection.file, rejection.message))
                         ELSE stdout
            /\ pc' = "exited"
            /\ exitCode' = 1
            /\ timer' = timer
       ELSE /\ timer' = rejection
            /\ UNCHANGED <<stdout, pc, exitCode>>
    /\ rejection' = NoError
    /\ UNCHANGED <<options, settings, started, files, content, fileSettings, lintPromise,
                   phase, steps, memo, ioLog, disk, writable>>
    /\ UNCHANGED idleVars

\* The timer of main(args).catch fires (437-439): the error is thrown
\* outside every handler and node ends the process with code 1.  The reads,
\* the loaders and the callbacks that complete before the timer is due run
\* first.
timerFires ==
    /\ pc # "exited"
    /\ timer # NoError
    /\ ~MicrotaskPending
    /\ pc' = "exited"
    /\ exitCode' = 1
    /\ UNCHANGED <<options, settings, started, files, content, fileSettings, lintPromise,
                   phase, steps, rejection, timer, stdout, memo, ioLog, disk, writable>>
    /\ UNCHANGED idleVars

\* Nothing is left to run (no pending read, loader, timer or promise
\* reaction): node exits with code 0, whether or not main's promise has
\* settled.
drain ==
    /\ \/ pc = "resolved"
       \/ /\ pc = "running"
          /\ \A f \in started : lintPromise[f] # "none"
    /\ rejection = NoError
    /\ timer = NoError
    /\ pc' = "exited"
    /\ exitCode' = 0
    /\ UNCHANGED <<options, settings, started, files, content, fileSettings, lintPromise,
                   phase, steps, rejection, timer, stdout, memo, ioLog, disk, writable>>
    /\ UNCHANGED idleVars

Next ==
    \/ main
    \/ execute
    \/ globbed
    \/ stdinEnd
    \/ \E f \in Pipelines : readDone(f)
    \/ \E f \in Pipelines : readFailed(f)
    \/ \E f \in Pipelines : fileSettingsDone(f)
    \/ \E f \in Pipelines : lintFile(f)
    \/ catch
    \/ timerFires
    \/ drain

Spec == Init /\ [][Next]_vars

(***************************************************************************)
(* The translator and the cache exercised on their own.                    *)
(***************************************************************************)
ProcIdle ==
    /\ pc = "idle"
    /\ exitCode = -1
    /\ options = EmptyObject
    /\ settings = NoSettings
    /\ started = {}
    /\ files = [f \in Pipelines |-> NoDoc]
    /\ content = [f \in Pipelines |-> NoDoc]
    /\ fileSettings = [f \in Pipelines |-> NoSettings]
    /\ lintPromise = [f \in Pipelines |-> "none"]
    /\ phase = [f \in Pipelines |-> "NotStarted"]
    /\ steps = [f \in Pipelines |-> <<>>]
    /\ rejection = NoError
    /\ timer = NoError
    /\ stdout = <<>>
    /\ memo = EmptyMemo
    /\ ioLog = <<>>

InitLex ==
    /\ error \in Failures
    /\ schema \in Schemas
    /\ messages = <<>>
    /\ block = <<>>
    /\ ProcIdle
    /\ PureIdle
    /\ disk = [q \in {} |-> Missing]
    /\ writable = TRUE
    /\ lastWrite = NoCall
    /\ lastRead = NoCall

SpecLex == InitLex /\ [][Translate]_vars

CacheUris == {RemoteRef, OtherRemoteRef}
CacheTexts == {SchemaText, NotJsonText, ""}

InitCache ==
    /\ LexIdle
    /\ ProcIdle
    /\ PureIdle
    /\ disk \in [{CachePath(u) : u \in CacheUris} -> {Missing, Blocked, File(SchemaText)}]
    /\ writable \in BOOLEAN
    /\ lastWrite = NoCall
    /\ lastRead = NoCall

\* One call writeSchemaCache(uri, data).
cacheWrite ==
    /\ \E u \in CacheUris, b \in CacheTexts :
         LET r == writeSchemaCache(disk, writable, u, b)
         IN /\ disk' = r.disk
            /\ lastWrite' = [t |-> "write", uri |-> u, data |-> b, threw |-> r.threw,
                             value |-> r.value]
    /\ lastRead' = NoCall
    /\ UNCHANGED <<writable, lexVars, procVars, pureVars>>

\* One call readSchemaCache(uri).
cacheRead ==
    /\ \E u \in CacheUris :
         LET r == readSchemaCache(disk, u)
         IN lastRead' = [t |-> "read", uri |-> u, threw |-> r.threw, value |-> r.value]
    /\ UNCHANGED <<disk, writable, lastWrite, lexVars, procVars, pureVars>>

NextCache == cacheWrite \/ cacheRead

SpecCache == InitCache /\ [][NextCache]_vars

(***************************************************************************)
(* The pretty-printer exercised on its own: formatJson applied once to a   *)
(* text and an indent.  The texts are all short character sequences over   *)
(* an alphabet of the characters formatJson distinguishes, and minified    *)
(* JSON texts as JSON.stringify writes them.                               *)
(***************************************************************************)
MaxLen == 3
MaxItems == 2

Alphabet == {"\"", ":", "{", "}", ",", " ", "\\", "a"}

AnyTexts == UNION {[1..n -> Alphabet] : n \in 0..MaxLen}

StringText(cs) == <<"\"">> \o cs \o <<"\"">>

\* The number 1 and the strings "x", "a b" and ":".
ScalarTexts ==
    {<<"1">>, StringText(<<"x">>), StringText(<<"a", " ", "b">>), StringText(<<":">>)}

RECURSIVE JoinTexts(_)
JoinTexts(items) ==
    IF Len(items) = 0 THEN <<>>
    ELSE IF Len(items) = 1 THEN items[1]
    ELSE items[1] \o <<",">> \o JoinTexts(Tail(items))

ItemLists(E) == UNION {[1..n -> E] : n \in 0..MaxItems}

ArrayText(items) == <<"[">> \o JoinTexts(items) \o <<"]">>

MemberKeys == <<"b", "a", "c", "d">>

ObjectText(items) ==
    <<"{">>
    \o JoinTexts([i \in 1..Len(items) |->
                    StringText(<<MemberKeys[i]>>) \o <<":">> \o items[i]])
    \o <<"}">>

Level1Texts ==
    ScalarTexts
    \cup {ArrayText(items) : items \in ItemLists(ScalarTexts)}
    \cup {ObjectText(items) : items \in ItemLists(ScalarTexts)}

Level2Texts ==
    {ArrayText(<<t>>) : t \in Level1Texts} \cup {ObjectText(<<t>>) : t \in Level1Texts}

\* ["\\",[[["\\"]]]]: two strings that hold one backslash each.
EscapedBackslashText ==
    <<"[">> \o StringText(<<"\\", "\\">>) \o <<",", "[", "[", "[">>
    \o StringText(<<"\\", "\\">>) \o <<"]", "]", "]", "]">>

MinifiedTexts == Level1Texts \cup Level2Texts \cup {EscapedBackslashText}

Sources == AnyTexts \cup MinifiedTexts

Indents == {Undefined, Text(<<" ", " ">>), Text(<<"\t">>)}

InitFormat ==
    /\ fmtSource \in Sources
    /\ fmtIndent \in Indents
    /\ formatted = NotCalled
    /\ sortArg = NotCalled
    /\ sorted = NotCalled
    /\ sortedAgain = NotCalled
    /\ loaded = NotCalled
    /\ LexIdle
    /\ ProcIdle
    /\ disk = [q \in {} |-> Missing]
    /\ writable = TRUE
    /\ lastWrite = NoCall
    /\ lastRead = NoCall

\* One call formatJson(source, indent).
Format ==
    /\ formatted = NotCalled
    /\ formatted' = formatJson(fmtSource, fmtIndent)
    /\ UNCHANGED <<fmtSource, fmtIndent, sortArg, sorted, sortedAgain, loaded>>
    /\ UNCHANGED <<lexVars, cacheVars, procVars>>

SpecFormat == InitFormat /\ [][Format]_vars

(***************************************************************************)
(* The key sorter exercised on its own: sort applied to a value tree, then *)
(* to its own result.                                                      *)
(***************************************************************************)
MaxKeys == 2

KeyNames == {KeyOrdinalOrder[r] : r \in 1..Len(KeyOrdinalOrder)}

SortScalars == {Num(1), Str("x"), JsNull}

\* The key lists an object can have: distinct names in enumeration order.
KeyLists ==
    {ks \in UNION {[1..n -> KeyNames] : n \in 0..MaxKeys} :
        /\ \A i, j \in 1..Len(ks) : i # j => ks[i] # ks[j]
        /\ ObjectKeys([i \in 1..Len(ks) |-> <<ks[i], JsNull>>]) = ks}

ObjectsOver(E) ==
    UNION {{Obj([i \in 1..Len(ks) |-> <<ks[i], vs[i]>>]) : vs \in [1..Len(ks) -> E]} :
             ks \in KeyLists}

Level1Trees ==
    SortScalars \cup ObjectsOver(SortScalars) \cup {JsArray(<<v>>) : v \in SortScalars}

Level2Trees ==
    {JsArray(<<v, Num(1)>>) : v \in Level1Trees}
    \cup {Obj(<<<<"b", Num(1)>>, <<"a", v>>>>) : v \in Level1Trees}

Trees == Level1Trees \cup Level2Trees

InitSort ==
    /\ sortArg \in Trees
    /\ sorted = NotCalled
    /\ sortedAgain = NotCalled
    /\ loaded = NotCalled
    /\ fmtSource = <<>>
    /\ fmtIndent = NotCalled
    /\ formatted = NotCalled
    /\ LexIdle
    /\ ProcIdle
    /\ disk = [q \in {} |-> Missing]
    /\ writable = TRUE
    /\ lastWrite = NoCall
    /\ lastRead = NoCall

\* One call sort(v).
Sort ==
    /\ sorted = NotCalled
    /\ sorted' = sort(sortArg)
    /\ UNCHANGED <<sortArg, sortedAgain, fmtSource, fmtIndent, formatted, loaded>>
    /\ UNCHANGED <<lexVars, cacheVars, procVars>>

\* One call of sort on what the first call returned.
SortAgain ==
    /\ sorted # NotCalled
    /\ ~sorted.threw
    /\ sortedAgain = NotCalled
    /\ sortedAgain' = sort(sorted.value)
    /\ UNCHANGED <<sortArg, sorted, fmtSource, fmtIndent, formatted, loaded>>
    /\ UNCHANGED <<lexVars, cacheVars, procVars>>

NextSort == Sort \/ SortAgain

SpecSort == InitSort /\ [][NextSort]_vars

(***************************************************************************)
(* The settings merge exercised on its own: getSettings as main calls it   *)
(* for the working directory, then as execute calls it for a file with the *)
(* settings main got.                                                      *)
(***************************************************************************)
Given(k, v) == {EmptyObject, k :> v}

\* Command lines that give each of the six settings or leave it out.
SettingsOptionSets ==
    {i @@ v @@ w @@ e @@ q @@ p @@ ("_" :> Arr(<<"*.json">>)) :
        i \in Given("ignore", Arr(<<"tmp/**", "out/**">>)),
        v \in Given("validate", Str(LocalRef)),
        w \in Given("indent", Text(<<"\t">>)),
        e \in Given("env", Str("json-schema-draft-03")),
        q \in Given("quiet", Bool(TRUE)),
        p \in Given("pretty", Bool(TRUE))}

\* What a .jsonlintrc and a .jsonlintignore can hold.
RcFiles ==
    {EmptyObject, "quiet" :> Bool(TRUE), "indent" :> Text(<<" ">>),
     ("env" :> Str("json-schema-draft-03")) @@ ("validate" :> Str(RemoteRef))}
IgnoreFiles == {<<>>, <<<<"dist/**", Bool(TRUE)>>>>}

LoaderResults == RcFiles \X IgnoreFiles

InitSettings ==
    /\ options \in SettingsOptionSets
    /\ loaded \in [cwd : LoaderResults, file : LoaderResults]
    /\ settings = NoSettings
    /\ fileSettings = [f \in Pipelines |-> NoSettings]
    /\ pc = "idle"
    /\ exitCode = -1
    /\ started = {}
    /\ files = [f \in Pipelines |-> NoDoc]
    /\ content = [f \in Pipelines |-> NoDoc]
    /\ lintPromise = [f \in Pipelines |-> "none"]
    /\ phase = [f \in Pipelines |-> "NotStarted"]
    /\ steps = [f \in Pipelines |-> <<>>]
    /\ rejection = NoError
    /\ timer = NoError
    /\ stdout = <<>>
    /\ memo = EmptyMemo
    /\ ioLog = <<>>
    /\ LexIdle
    /\ fmtSource = <<>>
    /\ fmtIndent = NotCalled
    /\ formatted = NotCalled
    /\ sortArg = NotCalled
    /\ sorted = NotCalled
    /\ sortedAgain = NotCalled
    /\ disk = [q \in {} |-> Missing]
    /\ writable = TRUE
    /\ lastWrite = NoCall
    /\ lastRead = NoCall

\* getSettings(options, process.cwd()) resolves (421).
mergeSettings ==
    /\ settings = NoSettings
    /\ settings' = getSettings(options, loaded.cwd)
    /\ UNCHANGED <<pc, exitCode, options, started, files, content, fileSettings, lintPromise,
                   phase, steps, rejection, timer, stdout, memo, ioLog>>
    /\ UNCHANGED <<lexVars, cacheVars, pureVars>>

\* getSettings(settings, file) resolves (362).
mergeFileSettings ==
    /\ settings # NoSettings
    /\ \E f \in Pipelines \ {0} :
         /\ fileSettings[f] = NoSettings
         /\ fileSettings' = [fileSettings EXCEPT ![f] = getSettings(settings, loaded.file)]
    /\ UNCHANGED <<pc, exitCode, options, settings, started, files, content, lintPromise,
                   phase, steps, rejection, timer, stdout, memo, ioLog>>
    /\ UNCHANGED <<lexVars, cacheVars, pureVars>>

NextSettings == mergeSettings \/ mergeFileSettings

SpecSettings == InitSettings /\ [][NextSettings]_vars

(***************************************************************************)
(* The schema fetcher exercised on its own: getSchema called again and     *)
(* again, as one run after another of the program calls it, on a cache     *)
(* directory that starts without entries.                                  *)
(***************************************************************************)
MaxCalls == 3

FetchUris == {RemoteRef, OtherRemoteRef, LocalRef}

\* The calls of getSchema that have ended.
Calls == Cardinality({i \in 1..Len(ioLog) : ioLog[i].op \in {"return", "throw"}})

InitFetch ==
    /\ disk \in [{CachePath(RemoteRef), CachePath(OtherRemoteRef)} -> {Missing, Blocked}]
    /\ writable \in BOOLEAN
    /\ lastWrite = NoCall
    /\ lastRead = NoCall
    /\ LexIdle
    /\ ProcIdle
    /\ PureIdle

\* One call getSchema(uri).
getSchemaCall ==
    /\ Calls < MaxCalls
    /\ \E uri \in FetchUris, net \in NetOutcomes, found \in BOOLEAN :
         LET r == getSchema(disk, writable, uri, net, found)
         IN /\ disk' = r.disk
            /\ ioLog' = ioLog \o r.events
    /\ UNCHANGED <<pc, exitCode, options, settings, started, files, content, fileSettings,
                   lintPromise, phase, steps, rejection, timer, stdout, memo>>
    /\ UNCHANGED <<writable, lastWrite, lastRead, lexVars, pureVars>>

SpecFetch == InitFetch /\ [][getSchemaCall]_vars

(***************************************************************************)
(* Properties of the error translator.                                     *)
(***************************************************************************)
Translated == block # <<>>

\* The rules violated on the i-th inserted field, in insertion order.
RulesOf(i) == InsertionKeys(error[i][2].o)

RECURSIVE CountRules(_)
CountRules(I) ==
    IF I = {} THEN 0
    ELSE LET i == CHOOSE k \in I : TRUE IN Len(RulesOf(i)) + CountRules(I \ {i})

\* Field k is enumerated before field i by Object.keys: canonical array
\* indices first, ascending, then the other keys as inserted.
EnumeratedBefore(k, i) ==
    LET a == error[k][1]
        b == error[i][1]
    IN IF IsArrayIndex(a) /\ IsArrayIndex(b) THEN IndexOf(a) < IndexOf(b)
       ELSE IF IsArrayIndex(a) THEN TRUE
       ELSE IF IsArrayIndex(b) THEN FALSE
       ELSE k < i

InsertedBefore(k, i) == k < i

\* What the schema declares for a field: its property object and the
\* value of one rule in it.
DeclaredProp(field) ==
    LET props == Get(schema, "properties")
    IN IF props.t = "object" /\ Get(props.o, field).t = "object"
       THEN Get(props.o, field).o ELSE <<>>

\* The message the code's formatter gives for the j-th rule of field i.
MessageFor(i, j) ==
    LET field == error[i][1]
        rule == RulesOf(i)[j]
    IN formatter(rule, field, Get(error[i][2].o, rule),
                 JsOr(Get(DeclaredProp(field), rule), Str("")), DeclaredProp(field))

\* The template table of the specification, section 4.6.
TemplateFor(i, j) ==
    LET field == error[i][1]
        rule == RulesOf(i)[j]
        detail == Get(error[i][2].o, rule)
        declared == Get(DeclaredProp(field), rule)
        limit == JsString(JsOr(declared, Str("")))
    IN CASE rule = "type" ->
              Quoted(field) \o " must be of type " \o Quoted(JsString(detail))
         [] rule = "minLength" ->
              Quoted(field) \o " must be at least " \o Quoted(limit) \o " characters"
         [] rule = "maxLength" ->
              Quoted(field) \o " may be at most " \o Quoted(limit) \o " characters"
         [] rule = "minProperties" ->
              Quoted(field) \o " must hold at least " \o Quoted(limit) \o " properties"
         [] rule = "maxProperties" ->
              Quoted(field) \o " may hold at most " \o Quoted(limit) \o " properties"
         [] rule = "patternProperties" ->
              Quoted(field) \o " must hold " \o Quoted(limit) \o " properties"
         [] rule = "minItems" ->
              Quoted(field) \o " must have at least " \o Quoted(limit) \o " items"
         [] rule = "maxItems" ->
              Quoted(field) \o " may have at most " \o Quoted(limit) \o " items"
         [] rule = "required" ->
              Quoted(field) \o " is " \o rule \o " but unset"
         [] rule = "additional" ->
              Quoted(field) \o " is not allowed as " \o rule \o " key"
         [] OTHER -> MessageFor(i, j)

\* C9: for each of the ten named rules the message of a violation is exactly
\* the string of the template table with the field and the limit filled in,
\* and every other rule gets the fallback template.
C9_MessagesMatchTemplates ==
    Translated =>
      \A i \in 1..Len(error) : \A j \in 1..Len(RulesOf(i)) :
        \E p \in 1..Len(messages) : messages[p] = TemplateFor(i, j)

\* C10 as stated: one message per (field, rule) pair, the fields in insertion
\* order and the rules of a field in insertion order, none dropped from the
\* block.
C10_InsertionOrder ==
    Translated =>
      /\ Len(messages) = CountRules(1..Len(error))
      /\ \A i \in 1..Len(error) : \A j \in 1..Len(RulesOf(i)) :
           messages[CountRules({k \in 1..Len(error) : InsertedBefore(k, i)}) + j]
             = MessageFor(i, j)
      /\ Len(block) = Len(messages) + 1
      /\ \A p \in 1..Len(messages) : block[p + 1] = "\t\t" \o messages[p]

\* C10 amended: one message per (field, rule) pair, so as many messages as
\* rule entries; the fields in the order Object.keys enumerates them
\* (canonical array indices ascending first, then the other keys in insertion
\* order), the rules of a field in insertion order; every message is a line
\* of the block.
C10_OneMessagePerPair ==
    Translated =>
      /\ Len(messages) = CountRules(1..Len(error))
      /\ \A i \in 1..Len(error) : \A j \in 1..Len(RulesOf(i)) :
           messages[CountRules({k \in 1..Len(error) : EnumeratedBefore(k, i)}) + j]
             = MessageFor(i, j)
      /\ Len(block) = Len(messages) + 1
      /\ \A p \in 1..Len(messages) : block[p + 1] = "\t\t" \o messages[p]

\* Two fields, one of them a canonical array index inserted last, and a
\* field with two violated rules, all translated.
C10_Witness ==
    /\ Translated
    /\ Len(error) = 2
    /\ ~IsArrayIndex(error[1][1])
    /\ IsArrayIndex(error[2][1])
    /\ Len(RulesOf(1)) = 2
    /\ Len(messages) = 3

\* The position in messages of the j-th rule of the i-th inserted field.
PositionOf(i, j) == CountRules({k \in 1..Len(error) : EnumeratedBefore(k, i)}) + j

\* The description the schema declares for a field, the empty string when
\* it declares none or has no entry for the field.
DescriptionOrEmpty(field) ==
    LET d == Get(DeclaredProp(field), "description")
    IN IF d.t = "string" THEN d.s ELSE ""

\* The fallback message up to and including " - ".
FallbackHead(i, j) ==
    LET field == error[i][1]
        rule == RulesOf(i)[j]
        ruleValue == JsOr(Get(DeclaredProp(field), rule), Str(""))
    IN Quoted(field) \o " does not meet rule \"" \o rule \o "="
       \o (IF ruleValue.t = "string" THEN JsonStringify(ruleValue.s) ELSE JsString(ruleValue))
       \o "\" - "

\* C11: the message of a violated rule that is not one of the ten named
\* rules is the fallback text followed by the description the schema
\* declares for the field, and by the empty string when the schema declares
\* no description for the field or has no entry for it.
C11_FallbackDescription ==
    Translated =>
      \A i \in 1..Len(error) : \A j \in 1..Len(RulesOf(i)) :
        RulesOf(i)[j] \notin LexNames =>
          messages[PositionOf(i, j)] = FallbackHead(i, j) \o DescriptionOrEmpty(error[i][1])

\* The same restricted to the fields the schema declares a description for.
C11_DeclaredDescription ==
    Translated =>
      \A i \in 1..Len(error) : \A j \in 1..Len(RulesOf(i)) :
        (RulesOf(i)[j] \notin LexNames
         /\ Get(DeclaredProp(error[i][1]), "description").t = "string") =>
          messages[PositionOf(i, j)] = FallbackHead(i, j) \o DescriptionOrEmpty(error[i][1])

(***************************************************************************)
(* Properties of the pretty-printer.                                       *)
(***************************************************************************)
Formatted == formatted # NotCalled

\* The in-string flag as specified: false at the start, toggled by every
\* double quote that is not immediately preceded by a backslash.
RECURSIVE ClaimedInString(_, _)
ClaimedInString(s, i) ==
    IF i <= 1 THEN FALSE
    ELSE IF s[i - 1] = "\"" /\ (i - 1 = 1 \/ s[i - 2] # "\\")
    THEN ~ClaimedInString(s, i - 1)
    ELSE ClaimedInString(s, i - 1)

\* A quote of s that toggles the specified flag.
TogglingQuote(s, i) == s[i] = "\"" /\ (i = 1 \/ s[i - 1] # "\\")

\* The string literals of s by the specified flag: <<a, b>> with the opening
\* quote at a and the closing quote at b.
Literals(s) ==
    {ab \in (1..Len(s)) \X (1..Len(s)) :
        /\ ab[1] < ab[2]
        /\ TogglingQuote(s, ab[1]) /\ ~ClaimedInString(s, ab[1])
        /\ TogglingQuote(s, ab[2])
        /\ \A k \in (ab[1] + 1)..(ab[2] - 1) : ~TogglingQuote(s, k)}

NoBackslashInLiterals(s) ==
    \A ab \in Literals(s) : \A k \in ab[1]..ab[2] : s[k] # "\\"

Occurs(sub, seq) ==
    \E k \in 0..(Len(seq) - Len(sub)) : SubSeq(seq, k + 1, k + Len(sub)) = sub

\* C12: the in-string flag of formatJson starts false and toggles on every
\* double quote not immediately preceded by a backslash, at every position
\* including the first; so in a source whose string literals hold no
\* backslash every literal, with whatever stands between its quotes, is in
\* the output unchanged.
C12_QuoteTogglesEverywhere ==
    Formatted =>
      /\ \A i \in 1..(Len(fmtSource) + 1) :
           inStringAt(fmtSource, i) = ClaimedInString(fmtSource, i)
      /\ (NoBackslashInLiterals(fmtSource) /\ ~formatted.threw) =>
           \A ab \in Literals(fmtSource) :
              Occurs(SubSeq(fmtSource, ab[1], ab[2]), formatted.value)

\* The same for the sources that do not start with a double quote.
C12_ExceptFirstPosition ==
    (Formatted /\ (Len(fmtSource) = 0 \/ fmtSource[1] # "\"")) =>
      /\ \A i \in 1..(Len(fmtSource) + 1) :
           inStringAt(fmtSource, i) = ClaimedInString(fmtSource, i)
      /\ (NoBackslashInLiterals(fmtSource) /\ ~formatted.threw) =>
           \A ab \in Literals(fmtSource) :
              Occurs(SubSeq(fmtSource, ab[1], ab[2]), formatted.value)

Structural == {"{", "}", "[", "]", ",", ":"}
Whitespace == {" ", "\t", "\n"}

StripWhitespace(cs) == SelectSeq(cs, LAMBDA c : c \notin Whitespace)

\* The positions of s inside its string literals as JSON delimits them: a
\* backslash escapes the character after it.
RECURSIVE StringChars(_, _, _, _)
StringChars(s, i, inStr, esc) ==
    IF i > Len(s) THEN {}
    ELSE IF ~inStr THEN StringChars(s, i + 1, s[i] = "\"", FALSE)
    ELSE IF esc THEN {i} \cup StringChars(s, i + 1, TRUE, FALSE)
    ELSE IF s[i] = "\\" THEN {i} \cup StringChars(s, i + 1, TRUE, TRUE)
    ELSE IF s[i] = "\"" THEN StringChars(s, i + 1, FALSE, FALSE)
    ELSE {i} \cup StringChars(s, i + 1, TRUE, FALSE)

\* No string of s holds a character of the set C.
StringsAvoid(s, C) == \A i \in StringChars(s, 1, FALSE, FALSE) : s[i] \notin C

\* C13 as stated: for a minified JSON text without structural characters in
\* its strings and an indent of whitespace, formatJson returns a text that,
\* with all whitespace removed, is the source.
C13_StripRestoresAlways ==
    (Formatted /\ fmtSource \in MinifiedTexts /\ StringsAvoid(fmtSource, Structural)) =>
       /\ ~formatted.threw
       /\ StripWhitespace(formatted.value) = fmtSource

\* C13 amended: the same for the minified JSON texts whose strings hold
\* neither structural characters nor whitespace nor backslashes.
C13_StripRestoresSource ==
    (Formatted /\ fmtSource \in MinifiedTexts
     /\ StringsAvoid(fmtSource, Structural \cup Whitespace \cup {"\\"})) =>
       /\ ~formatted.threw
       /\ StripWhitespace(formatted.value) = fmtSource

\* A nested text with a string in it was laid out over several lines, and
\* removing the whitespace gives the source back.
C13_Witness ==
    /\ Formatted
    /\ fmtSource = ArrayText(<<ObjectText(<<StringText(<<"x">>), <<"1">>>>)>>)
    /\ fmtIndent = Text(<<" ", " ">>)
    /\ ~formatted.threw
    /\ Len(formatted.value) > Len(fmtSource)
    /\ StripWhitespace(formatted.value) = fmtSource

(***************************************************************************)
(* Properties of the key sorter.                                           *)
(***************************************************************************)
\* v and w have the same leaves, the same array elements in the same order
\* and the same keys at every object: they differ at most in key order.
RECURSIVE SameUpToKeyOrder(_, _)
SameUpToKeyOrder(v, w) ==
    IF v.t # w.t THEN FALSE
    ELSE IF v.t = "array"
    THEN /\ Len(v.a) = Len(w.a)
         /\ \A i \in 1..Len(v.a) : SameUpToKeyOrder(v.a[i], w.a[i])
    ELSE IF v.t = "object"
    THEN /\ {v.o[i][1] : i \in 1..Len(v.o)} = {w.o[i][1] : i \in 1..Len(w.o)}
         /\ \A i \in 1..Len(v.o) : SameUpToKeyOrder(v.o[i][2], Get(w.o, v.o[i][1]))
    ELSE v = w

\* v and w are the same tree: the same leaves, arrays and objects, with the
\* keys of every object in the same order.
RECURSIVE SameTree(_, _)
SameTree(v, w) ==
    IF v.t # w.t THEN FALSE
    ELSE IF v.t = "array"
    THEN /\ Len(v.a) = Len(w.a)
         /\ \A i \in 1..Len(v.a) : SameTree(v.a[i], w.a[i])
    ELSE IF v.t = "object"
    THEN /\ InsertionKeys(v.o) = InsertionKeys(w.o)
         /\ \A i \in 1..Len(v.o) : SameTree(v.o[i][2], w.o[i][2])
    ELSE v = w

\* The keys of every object of v enumerate in ascending ordinal order.
RECURSIVE KeysAscending(_)
KeysAscending(v) ==
    IF v.t = "array" THEN \A i \in 1..Len(v.a) : KeysAscending(v.a[i])
    ELSE IF v.t = "object"
    THEN /\ \A i, j \in 1..Len(v.o) :
              i < j => OrdinalRank(ObjectKeys(v.o)[i]) < OrdinalRank(ObjectKeys(v.o)[j])
         /\ \A i \in 1..Len(v.o) : KeysAscending(v.o[i][2])
    ELSE TRUE

\* C15: sort returns a tree with the leaves, the array order and the key
\* sets of its argument, the keys of every object in ascending ordinal string
\* order, and sorting the result again changes nothing.
C15_SortCanonical ==
    /\ sorted # NotCalled =>
         /\ ~sorted.threw
         /\ SameUpToKeyOrder(sortArg, sorted.value)
         /\ KeysAscending(sorted.value)
    /\ (sorted # NotCalled /\ ~sorted.threw /\ sortedAgain # NotCalled) =>
         /\ ~sortedAgain.threw
         /\ SameTree(sortedAgain.value, sorted.value)

\* The keys of v that sort does not treat as any other name: the canonical
\* array indices, "__proto__" and "hasOwnProperty".
RECURSIVE PlainKeysOnly(_)
PlainKeysOnly(v) ==
    IF v.t = "array" THEN \A i \in 1..Len(v.a) : PlainKeysOnly(v.a[i])
    ELSE IF v.t = "object"
    THEN \A i \in 1..Len(v.o) :
            /\ ~IsArrayIndex(v.o[i][1])
            /\ v.o[i][1] \notin {"__proto__", "hasOwnProperty"}
            /\ PlainKeysOnly(v.o[i][2])
    ELSE TRUE

\* The same for the trees whose keys are none of those names.
C15_PlainKeys == PlainKeysOnly(sortArg) => C15_SortCanonical

(***************************************************************************)
(* Properties of the schema cache.                                         *)
(***************************************************************************)
ReadAfterWrite ==
    /\ lastWrite # NoCall
    /\ lastRead # NoCall
    /\ lastRead.uri = lastWrite.uri

\* C8 as stated: for every uri and bytes, a write followed by a read of the
\* same uri returns the bytes written; a read never throws and returns null
\* where no readable file is.
C8_WriteThenReadAlways ==
    /\ ReadAfterWrite => lastRead.value = Buffer(lastWrite.data)
    /\ lastRead # NoCall => ~lastRead.threw

\* C8 amended: a write that did not fail (writeSchemaCache returned
\* undefined) followed by a read of the same uri returns the bytes written;
\* a write that failed is swallowed (null returned, nothing thrown, the
\* directory left as it was); a read never throws and returns null where no
\* readable file is.
C8_WriteThenRead ==
    /\ (ReadAfterWrite /\ lastWrite.value = Undefined)
         => lastRead.value = Buffer(lastWrite.data)
    /\ lastWrite # NoCall => ~lastWrite.threw
    /\ lastRead # NoCall =>
         /\ ~lastRead.threw
         /\ At(disk, CachePath(lastRead.uri)).kind # "file" => lastRead.value = Null

\* A write went through and the read after it returned those bytes.
C8_Witness ==
    /\ ReadAfterWrite
    /\ lastWrite.value = Undefined
    /\ lastRead.value = Buffer(lastWrite.data)
    /\ lastWrite.data = NotJsonText

(***************************************************************************)
(* Properties of the process.                                              *)
(***************************************************************************)
Exited == pc = "exited"

CountIn(seq, P(_)) == Cardinality({i \in 1..Len(seq) : P(seq[i])})

\* The diagnostic blocks written for pipeline f.
DiagBlocks(f) == CountIn(stdout, LAMBDA o : o.kind = "diag" /\ o.file = f)

\* Everything written for the document of pipeline f.
PrintedFor(f) == CountIn(stdout, LAMBDA o : o.kind \in {"diag", "pretty"} /\ o.file = f)

Quiet == settings # NoSettings /\ Truthy(Prop(settings, "quiet"))
SchemaConfigured == settings # NoSettings /\ Truthy(Prop(settings, "validate"))

\* The document at f does not parse, or violates the configured schema.
FailsToParseOrValidate(f) ==
    /\ files[f] # Unreadable
    /\ \/ ~files[f].parses
       \/ SchemaConfigured /\ files[f].errors # <<>>

\* No schema load has failed.
SchemaAvailable == \A i \in 1..Len(ioLog) : ioLog[i].op # "throw"

\* C1: not quiet, several files linted, N >= 1 of them failing to parse or to
\* validate: when the process has exited, one diagnostic block has been
\* printed for each of the N failing files.
C1_OneBlockPerFailingFile ==
    (Exited /\ ~Quiet /\ Cardinality(started) >= 2) =>
       \A f \in started : FailsToParseOrValidate(f) => DiagBlocks(f) = 1

\* C2: when the process exits, every pipeline that was started has reached
\* its final state, Done or Failed.
C2_AllPipelinesFinish ==
    Exited => \A f \in started : phase[f] \in {"Done", "Failed"}

\* The process is bound to end with code 1: a rejection is on its way to
\* the exit handler, or the timer that rethrows an error is armed.  The
\* step that ends the process with code 0 is taken in neither case.
BoundToFail == rejection # NoError \/ timer # NoError

\* C3: with quiet enabled a failed document prints nothing (no diagnostic,
\* no pretty-printed text), the process is bound to end with code 1 or has
\* ended, and the exit code is then 1.
C3_QuietStillFails ==
    \A f \in started :
       (phase[f] = "Failed" /\ Truthy(Prop(fileSettings[f], "quiet"))) =>
          /\ PrintedFor(f) = 0
          /\ BoundToFail \/ Exited
          /\ Exited => exitCode = 1

\* A quiet run that ended with code 1 on a schema violation and printed
\* nothing.
C3_Witness ==
    /\ Exited
    /\ exitCode = 1
    /\ stdout = <<>>
    /\ \E f \in started :
         /\ phase[f] = "Failed"
         /\ Truthy(Prop(fileSettings[f], "quiet"))
         /\ steps[f] = <<"parse", "resolve", "validate">>

HelpOrVersion == Truthy(Prop(options, "help")) \/ Truthy(Prop(options, "version"))

\* C4: the exit code is 0 when every linted document parses and (with a
\* schema configured) validates, 1 when one fails to parse or validate; help
\* and version print their text and exit 0 with no pipeline started.
C4_ExitCodes ==
    Exited =>
      /\ ((\A f \in started : ~FailsToParseOrValidate(f)) /\ SchemaAvailable)
           => exitCode = 0
      /\ (\E f \in started : FailsToParseOrValidate(f)) => exitCode = 1
      /\ HelpOrVersion =>
           /\ exitCode = 0
           /\ started = {}
           /\ Len(stdout) = 1
           /\ stdout[1].kind \in {"help", "version"}

\* C5: once lint has run for a document its promise is settled: resolved
\* when the pipeline ended Done, rejected when it ended Failed.
C5_LintSettles ==
    \A f \in Pipelines :
       /\ phase[f] = "Done" => lintPromise[f] = "resolved"
       /\ phase[f] = "Failed" => lintPromise[f] = "rejected"

Gets(uri) == CountIn(ioLog, LAMBDA e : e.op = "GET" /\ e.uri = uri)
CacheReads(uri) == CountIn(ioLog, LAMBDA e : e.op = "cacheRead" /\ e.uri = uri)

\* The pipelines that asked obtainSchema for a schema.
Resolvers == {f \in started : \E i \in 1..Len(steps[f]) : steps[f][i] = "resolve"}

\* C6: within one run at most one network GET is issued for a remote schema
\* reference and the cache is read at most once for it, however many
\* pipelines resolve it.
C6_AtMostOneFetch ==
    \A uri \in {RemoteRef, OtherRemoteRef, LocalRef, NoHostRef} :
       Gets(uri) <= 1 /\ CacheReads(uri) <= 1

\* The same for the runs in which the first failure ends the process: no
\* error is waiting in the timer to be rethrown while pipelines go on.
C6_WhileNoRethrowPending == timer = NoError => C6_AtMostOneFetch

IsRemote(uri) == Truthy(UrlParse(uri).protocol) /\ Truthy(UrlParse(uri).host)

\* C7: for a reference with scheme and host getSchema reads the cache first,
\* issues a GET only after a cache read that returned nothing, and writes the
\* response text to the cache right before it returns; for a reference
\* without scheme or host it loads the module and touches neither cache nor
\* network.
C7_CacheThenFetchThenStore ==
    \A i \in 1..Len(ioLog) :
      LET e == ioLog[i] IN
      /\ e.op = "GET" =>
           /\ i > 1
           /\ ioLog[i - 1] = [op |-> "cacheRead", uri |-> e.uri, hit |-> FALSE]
      /\ e.op = "cacheRead" =>
           /\ IsRemote(e.uri)
           /\ i < Len(ioLog)
           /\ ~e.hit => ioLog[i + 1].op = "GET"
           /\ e.hit => ioLog[i + 1].op # "GET"
      /\ e.op = "cacheWrite" =>
           /\ IsRemote(e.uri)
           /\ i > 1
           /\ ioLog[i - 1].op \in {"GET", "cacheRead"}
           /\ ioLog[i - 1].op = "GET" => (ioLog[i - 1].ok /\ e.data = ioLog[i - 1].body)
           /\ ioLog[i - 1].op = "cacheRead" => ioLog[i - 1].hit
      /\ (e.op = "return" /\ IsRemote(e.uri)) =>
           /\ i > 1
           /\ ioLog[i - 1].op = "cacheWrite"
           /\ ioLog[i - 1].uri = e.uri
      /\ (e.op \in {"return", "throw"} /\ ~IsRemote(e.uri)) =>
           /\ i > 1
           /\ ioLog[i - 1].op = "require"
           /\ i > 2 => ioLog[i - 2].op \in {"return", "throw"}
      /\ e.op = "require" => ~IsRemote(e.uri)

\* A cache miss, a GET, the cache write and the return, in this order.
C7_Witness ==
    /\ Len(ioLog) = 4
    /\ ioLog[1] = [op |-> "cacheRead", uri |-> RemoteRef, hit |-> FALSE]
    /\ ioLog[2] = [op |-> "GET", uri |-> RemoteRef, ok |-> TRUE, body |-> SchemaText]
    /\ ioLog[3] = [op |-> "cacheWrite", uri |-> RemoteRef, data |-> SchemaText]
    /\ ioLog[4] = [op |-> "return", uri |-> RemoteRef]
    /\ At(disk, CachePath(RemoteRef)) = File(SchemaText)

\* lint has run for pipeline f.
LintRan(f) == f \in started /\ lintPromise[f] # "none"

StepTaken(f, step) == \E i \in 1..Len(steps[f]) : steps[f][i] = step

\* The pretty-printing step ran for pipeline f and formatJson threw in it.
PrettyThrew(f) ==
    /\ LintRan(f)
    /\ files[f].parses
    /\ Truthy(fileSettings[f].pretty)
    /\ ~Truthy(fileSettings[f].quiet)
    /\ formatJson(files[f].text, fileSettings[f].indent).threw

\* C14: with pretty enabled and quiet not, a failure inside the
\* pretty-printing step does not abort the pipeline: the document goes on to
\* schema resolution and validation when a schema is configured, and a
\* document that parses and validates does not end Failed.
C14_PrettyFailureIsLocal ==
    \A f \in Pipelines :
       PrettyThrew(f) =>
          /\ Truthy(fileSettings[f].validate) => StepTaken(f, "resolve")
          /\ (~FailsToParseOrValidate(f) /\ SchemaAvailable) => phase[f] # "Failed"

(***************************************************************************)
(* Properties of the settings merge.                                       *)
(***************************************************************************)
SettingFields == {"ignore", "validate", "indent", "env", "quiet", "pretty"}

\* Whether the configuration files of one directory give setting k, and the
\* value they give: the patterns of .jsonlintignore for ignore, the entry
\* of .jsonlintrc for the others.
ConfigHas(result, k) ==
    IF k = "ignore" THEN Len(result[2]) > 0 ELSE k \in DOMAIN result[1]
ConfigValue(result, k) ==
    IF k = "ignore" THEN Arr(ObjectKeys(result[2])) ELSE result[1][k]

\* The value of setting k by the stated precedence: the command line, then
\* the configuration files, then the default.
ExpectedSetting(k) ==
    IF k \in DOMAIN options THEN options[k]
    ELSE IF ConfigHas(loaded.cwd, k) THEN ConfigValue(loaded.cwd, k)
    ELSE defaults[k]

\* The same for a file: its own configuration files come before those of
\* the working directory.
ExpectedFileSetting(k) ==
    IF k \in DOMAIN options THEN options[k]
    ELSE IF ConfigHas(loaded.file, k) THEN ConfigValue(loaded.file, k)
    ELSE IF ConfigHas(loaded.cwd, k) THEN ConfigValue(loaded.cwd, k)
    ELSE defaults[k]

\* C16: every setting of the merged settings has the value given on the
\* command line when one was given, otherwise the value of the configuration
\* file when it has one, otherwise the default; so an explicit --ignore
\* list, or the default ignore list when none is given, is the one in effect.
C16_Precedence ==
    /\ settings # NoSettings =>
         \A k \in SettingFields : settings[k] = ExpectedSetting(k)
    /\ \A f \in Pipelines :
         fileSettings[f] # NoSettings =>
            \A k \in SettingFields : fileSettings[f][k] = ExpectedFileSetting(k)

\* The same for the settings other than ignore, as main merges them.
C16_ExceptIgnore ==
    settings # NoSettings =>
       \A k \in SettingFields \ {"ignore"} : settings[k] = ExpectedSetting(k)

(***************************************************************************)
(* Properties of schema resolution inside the pipeline.                    *)
(***************************************************************************)
\* A schema could not be had: a GET failed (which happens only after a
\* cache read that gave nothing), or the local module was not found.
SchemaUnresolved ==
    \E i \in 1..Len(ioLog) : ioLog[i].op \in {"GET", "require"} /\ ~ioLog[i].ok

\* The call of lint for pipeline f is the step taken, and in it a GET or a
\* module load failed.
UnresolvedIn(f) ==
    /\ lintPromise[f] = "none"
    /\ lintPromise'[f] # "none"
    /\ \E i \in (Len(ioLog) + 1)..Len(ioLog') :
          ioLog'[i].op \in {"GET", "require"} /\ ~ioLog'[i].ok

\* Such a call leaves the pipeline Failed, the validation engine not run
\* and the promise rejected; the rejection goes to the exit handler unless
\* the run has failed before on an error the timer will rethrow.
UnresolvedFailsPipeline ==
    \A f \in Pipelines :
       UnresolvedIn(f) =>
          /\ phase'[f] = "Failed"
          /\ steps'[f][Len(steps'[f])] = "resolve"
          /\ lintPromise'[f] = "rejected"
          /\ \/ rejection' # NoError /\ rejection'.type = "jsonlint" /\ rejection'.file = f
             \/ timer' # NoError

\* After a failed resolution the process is bound to end with code 1 or
\* has ended with it; when the failed resolution is what ended it, every
\* pipeline that asked for the schema is the one that failed, and its
\* failure was printed unless quiet.
UnresolvedFailsProcess ==
    SchemaUnresolved =>
      /\ \E f \in Pipelines : StepTaken(f, "resolve") /\ phase[f] = "Failed"
      /\ BoundToFail \/ Exited
      /\ Exited => exitCode = 1
      /\ timer = NoError =>
           \A f \in Pipelines :
              StepTaken(f, "resolve") =>
                 /\ phase[f] = "Failed"
                 /\ ~StepTaken(f, "validate")
                 /\ lintPromise[f] = "rejected"
                 /\ (Exited /\ ~Truthy(fileSettings[f].quiet)) => DiagBlocks(f) = 1

\* C17: when the configured schema cannot be resolved, the pipeline that
\* asked for it ends Failed without the validation engine having run, its
\* promise is rejected (the error is not swallowed), and the process exits
\* with code 1.
C17_UnresolvedSchemaFails ==
    []UnresolvedFailsProcess /\ [][UnresolvedFailsPipeline]_vars

\* A run that ended with code 1 and a printed failure after a cache miss and
\* a failed GET.
C17_Witness ==
    /\ Exited
    /\ exitCode = 1
    /\ Len(ioLog) > 1
    /\ ioLog[1] = [op |-> "cacheRead", uri |-> RemoteRef, hit |-> FALSE]
    /\ ioLog[Len(ioLog)] = [op |-> "throw", uri |-> RemoteRef]
    /\ SchemaUnresolved
    /\ \E f \in started : StepTaken(f, "resolve") /\ DiagBlocks(f) = 1

(***************************************************************************)
(* Properties of the order of the steps of lint.                           *)
(***************************************************************************)
StepOrder == <<"parse", "pretty", "resolve", "validate">>

StepRank(step) == CHOOSE r \in 1..Len(StepOrder) : StepOrder[r] = step

PrettyOutputs(f) == CountIn(stdout, LAMBDA o : o.kind = "pretty" /\ o.file = f)

\* The steps a pipeline has taken start with the parse and follow the
\* order parse, pretty-print, resolve, validate; a document that does not
\* parse has taken the parse step only and has no pretty-printed output.
StepsInOrder ==
    \A f \in Pipelines :
       /\ \A i \in 1..Len(steps[f]) : steps[f][i] \in {StepOrder[r] : r \in 1..Len(StepOrder)}
       /\ \A i, j \in 1..Len(steps[f]) :
            i < j => StepRank(steps[f][i]) < StepRank(steps[f][j])
       /\ Len(steps[f]) > 0 => steps[f][1] = "parse"
       /\ LintRan(f) => Len(steps[f]) > 0
       /\ (LintRan(f) /\ ~files[f].parses) =>
            /\ steps[f] = <<"parse">>
            /\ phase[f] = "Failed"
            /\ PrettyOutputs(f) = 0

\* The call of lint for a document that does not parse writes nothing but
\* the rejection: no cache read, GET or cache write, nothing memoized,
\* nothing printed.
ParseFailureTouchesNothing ==
    \A f \in Pipelines :
       (lintPromise[f] = "none" /\ lintPromise'[f] # "none" /\ ~files'[f].parses) =>
          /\ ioLog' = ioLog
          /\ disk' = disk
          /\ memo' = memo
          /\ stdout' = stdout

\* C18: the steps of a pipeline happen in the order parse, pretty-print,
\* schema resolve, validate, and a parse failure is terminal: nothing is
\* pretty-printed, the cache and the network are not touched and the
\* validation engine is not invoked for that document.
C18_StepOrder == []StepsInOrder /\ [][ParseFailureTouchesNothing]_vars

\* One document went through all four steps and another, with pretty and a
\* schema configured just the same, failed to parse and stopped there.
C18_Witness ==
    \E f, g \in started :
       /\ steps[f] = StepOrder
       /\ LintRan(g)
       /\ ~files[g].parses
       /\ steps[g] = <<"parse">>
       /\ Truthy(fileSettings[g].pretty)
       /\ Truthy(fileSettings[g].validate)
       /\ PrettyOutputs(f) = 1
       /\ PrettyOutputs(g) = 0

(***************************************************************************)
(* Properties of the cache under repeated calls of getSchema.              *)
(***************************************************************************)
ParsesAsJson(bytes) == ~JsonParse(BufferToString(bytes)).threw

\* Everything getSchema has written to the cache parses as JSON, and a
\* response that does not is followed by the throw, not by a cache write.
OnlyJsonStored ==
    \A i \in 1..Len(ioLog) :
       /\ ioLog[i].op = "cacheWrite" => ParsesAsJson(ioLog[i].data)
       /\ (ioLog[i].op = "GET" /\ ioLog[i].ok /\ ~ParsesAsJson(ioLog[i].body)) =>
            /\ i < Len(ioLog)
            /\ ioLog[i + 1].op = "throw"
    /\ \A q \in DOMAIN disk : disk[q].kind = "file" => ParsesAsJson(disk[q].data)

\* A step leaves every entry that exists as it is.
EntriesKept == \A q \in DOMAIN disk : disk[q].kind = "file" => disk'[q] = disk[q]

\* A step that starts with an entry for some reference adds no GET for it.
EntriesServed ==
    \A uri \in FetchUris :
       At(disk, CachePath(uri)).kind = "file" =>
          \A i \in (Len(ioLog) + 1)..Len(ioLog') :
             ~(ioLog'[i].op = "GET" /\ ioLog'[i].uri = uri)

\* C19: after any sequence of getSchema calls every cache entry the program
\* has written parses as JSON, a response that is not JSON is never stored,
\* and an entry, once it exists, is neither deleted nor replaced by other
\* content and is served in place of a live fetch.
C19_CacheEntriesStable ==
    []OnlyJsonStored /\ [][EntriesKept /\ EntriesServed]_vars

\* The same without the claim that the content of an entry never changes.
C19_StoredAndServed == []OnlyJsonStored /\ [][EntriesServed]_vars

\* An entry changes at most when it does not hold valid UTF-8.
C19_ValidEntriesKept ==
    [][\A q \in DOMAIN disk :
          (disk[q].kind = "file" /\ BufferToString(disk[q].data) = disk[q].data)
             => disk'[q] = disk[q]]_vars

====
